---- MODULE Spec2Model ----
(***************************************************************************)
(* A model of the OCL Dataset Validation Dashboard (src/app.py): the       *)
(* helper functions as operators over tables of cells, and one run of      *)
(* main() as a sequence of steps.                                          *)
(*                                                                         *)
(* Text is a sequence of one-character strings.  A missing cell (pandas    *)
(* NaN; read_csv turns an empty field into NaN) is the one-element         *)
(* sequence NaN, which no text over the alphabet equals.  A DataFrame is   *)
(* a record [cols, rows]: the set of its headers and the sequence of its   *)
(* rows, each row a function from the headers to cells.                    *)
(***************************************************************************)
EXTENDS Integers, Sequences, FiniteSets, TLC

VARIABLES pc, err, fn_in, fn_out, files, heap, ingested, bindings, widgets, out,
          pandas_major

vars == <<pc, err, fn_in, fn_out, files, heap, ingested, bindings, widgets, out,
          pandas_major>>

\* What a call of a helper function leaves alone.
caller == <<err, fn_in, files, heap, ingested, bindings, widgets, out, pandas_major>>

\* Bounds of the model.
MaxAliases == 3
MaxCount == 3
MaxSpaces == 1
MaxDigits == 2
MaxRows == 2

-----------------------------------------------------------------------------
(* Text and cells *)

NaN == <<"NaN">>
None == "None"
NoArg == [k |-> "none"]

isna(x) == x = NaN

UpperCase == <<"A", "B", "C", "D", "E", "F", "G", "H", "I", "J", "K", "L", "M",
               "N", "O", "P", "Q", "R", "S", "T", "U", "V", "W", "X", "Y", "Z">>
LowerCase == <<"a", "b", "c", "d", "e", "f", "g", "h", "i", "j", "k", "l", "m",
               "n", "o", "p", "q", "r", "s", "t", "u", "v", "w", "x", "y", "z">>

\* str.lower() on one character.
Lower(ch) ==
    IF \E i \in 1..26 : UpperCase[i] = ch
    THEN LowerCase[CHOOSE i \in 1..26 : UpperCase[i] = ch]
    ELSE ch

LowerStr(s) == [i \in 1..Len(s) |-> Lower(s[i])]

IsSpace(ch) == ch = " "

IsDigit(ch) == ch \in {"0", "1", "2", "3", "4", "5", "6", "7", "8", "9"}

RECURSIVE lstrip(_)
lstrip(s) == IF s # <<>> /\ IsSpace(Head(s)) THEN lstrip(Tail(s)) ELSE s

RECURSIVE rstrip(_)
rstrip(s) ==
    IF s # <<>> /\ IsSpace(s[Len(s)]) THEN rstrip(SubSeq(s, 1, Len(s) - 1)) ELSE s

strip(s) == rstrip(lstrip(s))

\* All sequences over S of length at most n.
RECURSIVE SeqsUpTo(_, _)
SeqsUpTo(S, n) ==
    IF n = 0 THEN {<<>>}
    ELSE LET shorter == SeqsUpTo(S, n - 1)
         IN shorter \cup {Append(q, x) : q \in shorter, x \in S}

Range(f) == {f[i] : i \in DOMAIN f}

-----------------------------------------------------------------------------
(* Alias resolution *)

\* The loop without its break: the last alias present wins.
RECURSIVE ResolveLoopNoBreak(_, _, _, _)
ResolveLoopNoBreak(possible_cols, columns, i, col_name) ==
    IF i > Len(possible_cols) THEN col_name
    ELSE ResolveLoopNoBreak(possible_cols, columns, i + 1,
            IF possible_cols[i] \in columns THEN possible_cols[i] ELSE col_name)

\* for col in possible_cols: if col in df.columns: col_name = col; break
RECURSIVE ResolveLoop(_, _, _, _)
ResolveLoop(possible_cols, columns, i, col_name) ==
    IF i > Len(possible_cols) THEN col_name
    ELSE IF possible_cols[i] \in columns THEN possible_cols[i]
    ELSE ResolveLoop(possible_cols, columns, i + 1, col_name)

ResolveFor(possible_cols, columns) == ResolveLoop(possible_cols, columns, 1, None)

\* next((c for c in candidates if c in df.columns), None)
NextIn(candidates, columns) ==
    LET present == SelectSeq(candidates, LAMBDA c : c \in columns)
    IN IF present = <<>> THEN None ELSE Head(present)

AliasPool == {"Ingestion type", "Ingest type", "ingest_type"}

HeaderPool == AliasPool \cup {"Dataset ID"}

\* No run of main() is in progress.
NoRun ==
        /\ err = "none"
        /\ files = <<>>
        /\ heap = <<>>
        /\ ingested = <<>>
        /\ bindings = {}
        /\ widgets = <<>>
        /\ out = <<>>

Idle == NoRun /\ pandas_major = 2

InitResolve ==
    /\ pc = "call"
    /\ fn_in \in [possible_cols : SeqsUpTo(AliasPool, MaxAliases),
                  columns : SUBSET HeaderPool]
    /\ fn_out = NoArg
    /\ Idle

ResolveForCall ==
    /\ pc = "call"
    /\ pc' = "ret_for"
    /\ fn_out' = [k |-> "col", v |-> ResolveFor(fn_in.possible_cols, fn_in.columns)]
    /\ UNCHANGED caller

NextInCall ==
    /\ pc = "call"
    /\ pc' = "ret_next"
    /\ fn_out' = [k |-> "col", v |-> NextIn(fn_in.possible_cols, fn_in.columns)]
    /\ UNCHANGED caller

NextResolve == ResolveForCall \/ NextInCall

SpecResolve == InitResolve /\ [][NextResolve]_vars

PresentAt(possible_cols, columns) ==
    {i \in 1..Len(possible_cols) : possible_cols[i] \in columns}

\* C6: alias resolution (the for/break loop and the next(...) idiom alike)
\* returns the alias at the least index whose name is among the headers,
\* never a later one, and None when no alias is among the headers.
C6_FirstAliasWins ==
    pc \in {"ret_for", "ret_next"} =>
        LET P == PresentAt(fn_in.possible_cols, fn_in.columns)
        IN IF P = {} THEN fn_out.v = None
           ELSE /\ fn_out.v = fn_in.possible_cols[CHOOSE i \in P : \A j \in P : i <= j]
                /\ \A j \in P : fn_out.v # fn_in.possible_cols[j] =>
                       \E i \in P : i < j /\ fn_in.possible_cols[i] = fn_out.v

\* Several aliases present at once, and the ones after the first differ from it.
C6_Witness ==
    /\ pc = "ret_for"
    /\ Cardinality({fn_in.possible_cols[i] :
                       i \in PresentAt(fn_in.possible_cols, fn_in.columns)}) >= 2
    /\ fn_out.v = fn_in.possible_cols[1]
-----------------------------------------------------------------------------
(* extract_case_number *)

Txt_Case == <<"C", "a", "s", "e">>
Txt_Unknown == <<"U", "n", "k", "n", "o", "w", "n">>

\* str(x) of a cell that is not missing: text cells are their own text.
str(x) == IF isna(x) THEN <<"n", "a", "n">> ELSE x

\* The end of the run of whitespace that starts at p: the index just after it.
RECURSIVE SpaceRunEnd(_, _)
SpaceRunEnd(s, p) ==
    IF p <= Len(s) /\ IsSpace(s[p]) THEN SpaceRunEnd(s, p + 1) ELSE p

\* The end of the run of digits that starts at p: the index just after it.
RECURSIVE DigitRunEnd(_, _)
DigitRunEnd(s, p) ==
    IF p <= Len(s) /\ IsDigit(s[p]) THEN DigitRunEnd(s, p + 1) ELSE p

\* Case\s*(\d+) tried at position i: group 1, or <<>> when it does not match.
CaseMatchAt(s, i) ==
    IF i + 3 <= Len(s) /\ SubSeq(s, i, i + 3) = Txt_Case
    THEN LET d == SpaceRunEnd(s, i + 4)
             e == DigitRunEnd(s, d)
         IN SubSeq(s, d, e - 1)
    ELSE <<>>

\* re.match: the pattern is tried at the start of the text only.
re_match_case(s) == CaseMatchAt(s, 1)

\* re.search(r'Case\s*(\d+)', s): group 1 of the leftmost match, <<>> for no match.
RECURSIVE re_search_from(_, _)
re_search_from(s, i) ==
    IF i > Len(s) THEN <<>>
    ELSE IF CaseMatchAt(s, i) # <<>> THEN CaseMatchAt(s, i)
    ELSE re_search_from(s, i + 1)

re_search_case(s) == re_search_from(s, 1)

extract_case_number(sanity_reason) ==
    IF isna(sanity_reason) THEN Txt_Unknown
    ELSE LET group1 == re_search_case(str(sanity_reason))
         IN IF group1 # <<>> THEN Txt_Case \o <<" ">> \o group1 ELSE Txt_Unknown

Spaces(k) == [i \in 1..k |-> " "]

CasePrefixes == {<<>>, <<"x">>, <<"C", "a", "s", "e", " ", "x", " ">>}
CaseWords == {Txt_Case, <<"c", "a", "s", "e">>, <<"C", "A", "S", "E">>, <<"C", "a", "s">>}
CaseSuffixes == {<<>>, <<"x">>, <<" ", "C", "a", "s", "e", "2">>}

CaseInputs ==
    {NaN} \cup
    {pre \o w \o Spaces(k) \o d \o suf :
        pre \in CasePrefixes, w \in CaseWords, k \in 0..MaxSpaces,
        d \in SeqsUpTo({"0", "7"}, MaxDigits), suf \in CaseSuffixes}

InitCase ==
    /\ pc = "call"
    /\ fn_in \in [sanity_reason : CaseInputs]
    /\ fn_out = NoArg
    /\ Idle

ExtractCaseCall ==
    /\ pc = "call"
    /\ pc' = "ret_case"
    /\ fn_out' = [k |-> "label", v |-> extract_case_number(fn_in.sanity_reason)]
    /\ UNCHANGED caller

NextCase == ExtractCaseCall

SpecCase == InitCase /\ [][NextCase]_vars

\* The occurrences <<i, w>> in s of a four-letter word accepted by Word(_),
\* then w whitespace characters, then a digit.
CaseOccurrences(s, Word(_)) ==
    {o \in (1..Len(s)) \X (0..Len(s)) :
        /\ o[1] + 4 + o[2] <= Len(s)
        /\ Word(SubSeq(s, o[1], o[1] + 3))
        /\ \A p \in (o[1] + 4)..(o[1] + 3 + o[2]) : IsSpace(s[p])
        /\ IsDigit(s[o[1] + 4 + o[2]])}

IsCaseExact(w) == w = Txt_Case
IsCaseAnyLetterCase(w) == LowerStr(w) = <<"c", "a", "s", "e">>

\* The digits n of the occurrence o: the longest run of digits at its digit.
DigitsOf(s, o) ==
    LET p == o[1] + 4 + o[2]
        e == CHOOSE q \in p..Len(s) :
                /\ \A r \in p..q : IsDigit(s[r])
                /\ (q = Len(s) \/ ~IsDigit(s[q + 1]))
    IN SubSeq(s, p, e)

CaseLabelAgrees(x, label, Word(_)) ==
    IF isna(x) \/ CaseOccurrences(x, Word) = {} THEN label = Txt_Unknown
    ELSE LET O == CaseOccurrences(x, Word)
             first == CHOOSE o \in O : \A o2 \in O : o[1] <= o2[1]
         IN label = Txt_Case \o <<" ">> \o DigitsOf(x, first)

\* C10 as stated: extract_case_number returns without error, "Case n" exactly
\* when the text holds 'case' in any letter case, optional whitespace and
\* digits n, and "Unknown" otherwise.
C10_CaseInsensitive ==
    pc = "ret_case" =>
        /\ err = "none"
        /\ CaseLabelAgrees(fn_in.sanity_reason, fn_out.v, IsCaseAnyLetterCase)

\* C10 amended: extract_case_number returns without error; it returns
\* "Case n" exactly when the text holds the word 'Case' spelled with a capital
\* C and lower-case 'ase', optional whitespace and digits n (the digits of the
\* leftmost such occurrence), and "Unknown" otherwise, missing cells included.
C10_CaseSensitive ==
    pc = "ret_case" =>
        /\ err = "none"
        /\ CaseLabelAgrees(fn_in.sanity_reason, fn_out.v, IsCaseExact)

\* "x" before the word, two digits found, an unmatched "Case x" skipped.
C10_Witness ==
    /\ pc = "ret_case"
    /\ fn_in.sanity_reason # NaN
    /\ Len(fn_in.sanity_reason) >= 9
    /\ SubSeq(fn_in.sanity_reason, 1, 6) = <<"C", "a", "s", "e", " ", "x">>
    /\ fn_out.v = <<"C", "a", "s", "e", " ", "7", "0">>

-----------------------------------------------------------------------------
(* The metrics of main() *)

\* The total without the Not OK count.
total_count_dropping_not_ok(ok_count, partial_count, not_ok_count) ==
    ok_count + partial_count

\* total_count = ok_count + partial_count + not_ok_count
total_count_of(ok_count, partial_count, not_ok_count) ==
    ok_count + partial_count + not_ok_count

\* success_rate = (ok_count / total_count * 100) if total_count > 0 else 0
\* The quotient is kept exact, as the fraction num/den.
success_rate_of(ok_count, total_count) ==
    IF total_count > 0 THEN [num |-> ok_count * 100, den |-> total_count]
    ELSE [num |-> 0, den |-> 1]

InitMetrics ==
    /\ pc = "call"
    /\ fn_in \in [ok_count : 0..MaxCount, partial_count : 0..MaxCount,
                  not_ok_count : 0..MaxCount]
    /\ fn_out = NoArg
    /\ Idle

MetricsCall ==
    /\ pc = "call"
    /\ pc' = "ret_metrics"
    /\ LET total == total_count_of(fn_in.ok_count, fn_in.partial_count,
                                   fn_in.not_ok_count)
       IN fn_out' = [k |-> "metrics", total_count |-> total,
                     success_rate |-> success_rate_of(fn_in.ok_count, total)]
    /\ UNCHANGED caller

NextMetrics == MetricsCall

SpecMetrics == InitMetrics /\ [][NextMetrics]_vars

\* C9: total = ok + partial + notOk; successRate = ok / total * 100 when
\* total > 0 and 0 when total = 0; successRate lies in [0, 100]; and
\* OK=3, PartialOK=2, NotOk=1 gives total 6 and successRate 50.
C9_SuccessRate ==
    pc = "ret_metrics" =>
        LET sum == fn_in.ok_count + fn_in.partial_count + fn_in.not_ok_count
            r == fn_out.success_rate
        IN /\ fn_out.total_count = sum
           /\ r.den > 0
           /\ sum > 0 => r.num * sum = fn_in.ok_count * 100 * r.den
           /\ sum = 0 => r.num = 0
           /\ 0 <= r.num /\ r.num <= 100 * r.den
           /\ (fn_in.ok_count = 3 /\ fn_in.partial_count = 2 /\ fn_in.not_ok_count = 1)
                 => (fn_out.total_count = 6 /\ r.num = 50 * r.den)

\* The end-to-end scenario's counts: 3, 2, 1 give 6 and 50.
C9_Witness ==
    /\ pc = "ret_metrics"
    /\ fn_in = [ok_count |-> 3, partial_count |-> 2, not_ok_count |-> 1]
    /\ fn_out.total_count = 6
    /\ fn_out.success_rate.num = 50 * fn_out.success_rate.den

-----------------------------------------------------------------------------
(* DataFrames *)

NoneDF == [none |-> TRUE]

IsNone(df) == "none" \in DOMAIN df

DataFrame(cols, rows) == [cols |-> cols, rows |-> rows]

len(df) == Len(df.rows)

\* df.empty: no rows or no columns.
empty(df) == Len(df.rows) = 0 \/ df.cols = {}

\* df[c] as the sequence of its cells; the caller has checked c in df.columns.
Column(df, c) == [i \in 1..Len(df.rows) |-> df.rows[i][c]]

\* len(series.unique()): NaN counts as one value.
len_unique(series) == Cardinality(Range(series))

\* series.nunique(): NaN is dropped.
nunique(series) == Cardinality(Range(series) \ {NaN})

Returned(v) == [k |-> "return", v |-> v]
Raised(e) == [k |-> "raise", v |-> e]

\* def get_unique_dataset_count(df, id_column="Dataset ID")
get_unique_dataset_count(df, id_column) ==
    IF IsNone(df) \/ empty(df) THEN Returned(0)
    ELSE IF id_column \notin df.cols THEN Raised("KeyError")
    ELSE Returned(nunique(Column(df, id_column)))

\* len(df['Dataset ID'].unique()) if 'Dataset ID' in df.columns else len(df)
dataset_count(df) ==
    IF "Dataset ID" \in df.cols THEN len_unique(Column(df, "Dataset ID")) ELSE len(df)

\* All tables over the headers cols with at most n rows, each cell of column c
\* drawn from Dom[c].
RowsOver(cols, Dom) == {r \in [cols -> UNION {Dom[c] : c \in cols}] :
                           \A c \in cols : r[c] \in Dom[c]}

TablesOver(cols, Dom, n) ==
    {DataFrame(cols, rows) : rows \in SeqsUpTo(RowsOver(cols, Dom), n)}

CountDom == [c \in {"Dataset ID", "Status"} |->
                IF c = "Dataset ID" THEN {<<"a">>, <<"b">>, NaN}
                ELSE {<<"s">>, <<"t">>}]

InitCount ==
    /\ pc = "call"
    /\ fn_in \in [df : TablesOver({"Dataset ID", "Status"}, CountDom, MaxRows)
                       \cup TablesOver({"Status"}, CountDom, MaxRows)]
    /\ fn_out = NoArg
    /\ Idle

GetUniqueDatasetCountCall ==
    /\ pc = "call"
    /\ pc' = "ret_helper"
    /\ fn_out' = get_unique_dataset_count(fn_in.df, "Dataset ID")
    /\ UNCHANGED caller

DatasetCountCall ==
    /\ pc = "call"
    /\ pc' = "ret_metric"
    /\ fn_out' = Returned(dataset_count(fn_in.df))
    /\ UNCHANGED caller

NextCount == GetUniqueDatasetCountCall \/ DatasetCountCall

SpecCount == InitCount /\ [][NextCount]_vars

\* C8: the unique count, from the helper get_unique_dataset_count and from the
\* dashboard's metric expression alike, is the number of distinct Dataset ID
\* values when the column is present (a missing cell counted as a value or
\* not), the row count when the column is absent, and at most the row count.
C8_UniqueCount ==
    pc \in {"ret_helper", "ret_metric"} =>
        /\ fn_out.k = "return"
        /\ IF "Dataset ID" \in fn_in.df.cols
           THEN fn_out.v \in {len_unique(Column(fn_in.df, "Dataset ID")),
                              nunique(Column(fn_in.df, "Dataset ID"))}
           ELSE fn_out.v = len(fn_in.df)
        /\ fn_out.v <= len(fn_in.df)

-----------------------------------------------------------------------------
(* search_dataset *)

\* series.astype(str) on one cell: pandas before 3.0 turns a missing cell into
\* the text "nan"; pandas 3 keeps it missing.
astype_str(x) ==
    IF isna(x) THEN (IF pandas_major = 2 THEN <<"n", "a", "n">> ELSE NaN) ELSE x

\* re.compile(pat) fails: over the alphabet of the model, exactly when the
\* pattern holds an opening parenthesis (there is no closing one to pair it).
regex_error(pat) == \E k \in 1..Len(pat) : pat[k] = "("

\* One pattern character against one text character under re.IGNORECASE:
\* "." matches any character, every other character of the alphabet itself.
regex_char(p, ch) == p = "." \/ Lower(p) = Lower(ch)

\* re.compile(pat, re.IGNORECASE).search(text) is not None
regex_search(pat, text) ==
    \E i \in 0..(Len(text) - Len(pat)) :
        \A k \in 1..Len(pat) : regex_char(pat[k], text[i + k])

\* series.str.contains(pat, case=False, na=False) on one cell (regex=True is
\* the default): a missing cell gives False.
str_contains(x, pat) == IF isna(x) THEN FALSE ELSE regex_search(pat, x)

\* def search_dataset(df, search_term, id_column="Dataset ID")
search_dataset(df, search_term, id_column) ==
    IF search_term = <<>> THEN Returned(df)
    ELSE LET term == strip(search_term)
         IN IF id_column \notin df.cols THEN Raised("KeyError")
            ELSE IF regex_error(term) THEN Raised("re.error")
            ELSE Returned(DataFrame(df.cols,
                    SelectSeq(df.rows,
                        LAMBDA r : str_contains(astype_str(r[id_column]), term))))

MaxTerm == 2

SearchDom == [c \in {"Dataset ID", "Status"} |->
                IF c = "Dataset ID" THEN {<<"a", "b">>, <<"B">>, NaN}
                ELSE {<<"s">>}]

SearchTerms == SeqsUpTo({"a", "B", "n", ".", "(", " "}, MaxTerm)

InitSearch ==
    /\ pc = "call"
    /\ fn_in \in [df : TablesOver({"Dataset ID", "Status"}, SearchDom, MaxRows)
                       \cup TablesOver({"Status"}, SearchDom, MaxRows),
                  search_term : SearchTerms]
    /\ fn_out = NoArg
    /\ NoRun
    /\ pandas_major \in {2, 3}

SearchDatasetCall ==
    /\ pc = "call"
    /\ pc' = "ret_search"
    /\ fn_out' = search_dataset(fn_in.df, fn_in.search_term, "Dataset ID")
    /\ UNCHANGED caller

NextSearch == SearchDatasetCall

SpecSearch == InitSearch /\ [][NextSearch]_vars

\* text contains s as a substring, letter case ignored, every character of s
\* standing for itself.
ContainsLiteral(text, s) ==
    \E i \in 0..(Len(text) - Len(s)) :
        \A k \in 1..Len(s) : Lower(s[k]) = Lower(text[i + k])

\* The Dataset ID cell of a row: missing when the table has no such column.
DatasetIdOf(df, r) == IF "Dataset ID" \in df.cols THEN r["Dataset ID"] ELSE NaN

\* C3, on the tables that have a Dataset ID column with no missing cell and the
\* terms with no blank at either end: the search result holds exactly the
\* records whose Dataset ID, as text, contains the search term as a
\* case-insensitive literal substring, and an empty term gives the table back.
C3_LiteralSubstring ==
    (/\ pc = "ret_search"
     /\ "Dataset ID" \in fn_in.df.cols
     /\ \A i \in 1..len(fn_in.df) : ~isna(fn_in.df.rows[i]["Dataset ID"])
     /\ strip(fn_in.search_term) = fn_in.search_term) =>
        /\ fn_out.k = "return"
        /\ fn_out.v.cols = fn_in.df.cols
        /\ fn_out.v.rows =
              SelectSeq(fn_in.df.rows,
                 LAMBDA r : \/ fn_in.search_term = <<>>
                            \/ ContainsLiteral(DatasetIdOf(fn_in.df, r),
                                               fn_in.search_term))

-----------------------------------------------------------------------------
(* Filtering: apply_filters and the filter pipelines of the tabs of main() *)

\* The clause applied to the unfiltered table: the earlier clauses are lost.
isin_step_from_df(df, filtered_df, column, values) ==
    DataFrame(df.cols, SelectSeq(df.rows, LAMBDA r : r[column] \in values))

\* filtered_df = filtered_df[filtered_df[column].isin(values)]
\* (isin holds of a missing cell when NaN is among the values)
isin_step(df, filtered_df, column, values) ==
    DataFrame(filtered_df.cols,
              SelectSeq(filtered_df.rows, LAMBDA r : r[column] \in values))

\* filtered_df = filtered_df[filtered_df[column] == values], values a scalar:
\* NaN equals nothing.
eq_step(filtered_df, column, value) ==
    DataFrame(filtered_df.cols,
              SelectSeq(filtered_df.rows,
                        LAMBDA r : ~isna(value) /\ r[column] = value))

ListOf(values) == [k |-> "list", v |-> values]
ScalarOf(value) == [k |-> "scalar", v |-> value]

\* Python truth of a filter value: a non-empty list, a non-empty text, NaN.
truthy(values) == IF values.k = "list" THEN values.v # {} ELSE values.v # <<>>

\* def apply_filters(df, filters_dict); filters_dict as the sequence of its items.
RECURSIVE apply_filters_loop(_, _, _)
apply_filters_loop(df, filtered_df, items) ==
    IF items = <<>> THEN filtered_df
    ELSE LET column == Head(items).column
             values == Head(items).values
             next_df ==
                IF truthy(values) /\ column \in filtered_df.cols
                THEN IF values.k = "list"
                     THEN isin_step(df, filtered_df, column, values.v)
                     ELSE eq_step(filtered_df, column, values.v)
                ELSE filtered_df
         IN apply_filters_loop(df, next_df, Tail(items))

apply_filters(df, filters_dict) == apply_filters_loop(df, df, filters_dict)

SearchClause(term) == [k |-> "search", term |-> term]
IsinClause(col, values) == [k |-> "isin", col |-> col, values |-> values]

\* The filter code of a tab, clause by clause:
\*   if search: filtered = search_dataset(filtered, search)
\*   if values and col: filtered = filtered[filtered[col].isin(values)]
RECURSIVE run_clauses(_, _, _)
run_clauses(df, filtered, clauses) ==
    IF clauses = <<>> THEN Returned(filtered)
    ELSE LET c == Head(clauses)
         IN IF c.k = "search"
            THEN IF c.term # <<>>
                 THEN LET r == search_dataset(filtered, c.term, "Dataset ID")
                      IN IF r.k = "raise" THEN r
                         ELSE run_clauses(df, r.v, Tail(clauses))
                 ELSE run_clauses(df, filtered, Tail(clauses))
            ELSE IF c.values # {} /\ c.col # None
                 THEN run_clauses(df, isin_step(df, filtered, c.col, c.values),
                                  Tail(clauses))
                 ELSE run_clauses(df, filtered, Tail(clauses))

\* status_col = 'Status' if 'Status' in df_ok.columns else None
status_col_ok(df) == IF "Status" \in df.cols THEN "Status" ELSE None

\* ingest_col = next((c for c in ['Ingestion type', 'Ingest type'] if c in df_ok.columns), None)
ingest_col_ok(df) == NextIn(<<"Ingestion type", "Ingest type">>, df.cols)

\* The clauses of the OK tab in the order of the code.
clauses_ok(df, search_ok, status_filter, ingest_filter) ==
    <<SearchClause(search_ok),
      IsinClause(status_col_ok(df), status_filter),
      IsinClause(ingest_col_ok(df), ingest_filter)>>

\* filtered_ok of the OK tab: df_ok.copy(), then the clauses.
filter_ok(df, search_ok, status_filter, ingest_filter) ==
    run_clauses(df, df, clauses_ok(df, search_ok, status_filter, ingest_filter))

FilterDom == [c \in {"Dataset ID", "Status", "Ingest type"} |->
                CASE c = "Dataset ID" -> {<<"a">>, <<"b">>}
                  [] c = "Status" -> {<<"s">>, <<"t">>}
                  [] OTHER -> {<<"f">>, NaN}]

FilterTables ==
    TablesOver({"Dataset ID", "Status", "Ingest type"}, FilterDom, MaxRows)
    \cup TablesOver({"Status", "Ingest type"}, FilterDom, MaxRows)
    \cup TablesOver({"Dataset ID", "Ingest type"}, FilterDom, MaxRows)

InitFilter ==
    /\ pc = "call"
    /\ fn_in \in [df : FilterTables,
                  search : {<<>>, <<"a">>, <<"B">>},
                  status : SUBSET FilterDom["Status"],
                  ingest : SUBSET FilterDom["Ingest type"]]
    /\ fn_out = NoArg
    /\ Idle

FilterOkCall ==
    /\ pc = "call"
    /\ pc' = "ret_filter"
    /\ fn_out' = filter_ok(fn_in.df, fn_in.search, fn_in.status, fn_in.ingest)
    /\ UNCHANGED caller

filters_dict_of(status, ingest) ==
    <<[column |-> "Status", values |-> ListOf(status)],
      [column |-> "Ingest type", values |-> ListOf(ingest)]>>

ApplyFiltersCall ==
    /\ pc = "call"
    /\ pc' = "ret_apply"
    /\ fn_out' = Returned(apply_filters(fn_in.df,
                                        filters_dict_of(fn_in.status, fn_in.ingest)))
    /\ UNCHANGED caller

NextFilter == FilterOkCall \/ ApplyFiltersCall

SpecFilter == InitFilter /\ [][NextFilter]_vars

\* A membership clause on field c of a record: no constraint when the accepted
\* set is empty or the table has no such field.
MemberOk(df, r, c, accepted) == accepted = {} \/ c \notin df.cols \/ r[c] \in accepted

\* The search clause of a record; on a table with no Dataset ID column it
\* rejects every record (reject = TRUE) or constrains nothing (reject = FALSE).
SearchOk(df, r, term, reject) ==
    \/ term = <<>>
    \/ IF "Dataset ID" \in df.cols
       THEN ~isna(r["Dataset ID"]) /\ ContainsLiteral(r["Dataset ID"], term)
       ELSE ~reject

FilterExpected(df, search, status, ingest, reject) ==
    DataFrame(df.cols,
        SelectSeq(df.rows,
            LAMBDA r : /\ SearchOk(df, r, search, reject)
                       /\ MemberOk(df, r, "Status", status)
                       /\ MemberOk(df, r, "Ingest type", ingest)))

\* C2: for every table and filter spec the filtered view of the tab holds
\* exactly the records, in their order, that satisfy every clause; an empty
\* accepted set, a clause on a field the table lacks and an empty search term
\* constrain nothing.  (For a search on a table with no Dataset ID column
\* either reading is accepted: no record matches, or the clause is a no-op.)
C2_ExactlyTheSatisfyingRecords ==
    pc = "ret_filter" =>
        /\ fn_out.k = "return"
        /\ \E reject \in BOOLEAN :
              fn_out.v = FilterExpected(fn_in.df, fn_in.search, fn_in.status,
                                        fn_in.ingest, reject)

Perms3 == {p \in [1..3 -> 1..3] : \A i, j \in 1..3 : p[i] = p[j] => i = j}

Permuted(q, p) == [i \in 1..3 |-> q[p[i]]]

\* C4: applying a filter spec is idempotent and order-independent: the
\* outcome of the tab's pipeline (a table, or the error it raises) is the
\* outcome of its clauses applied in every other order, and applying the spec
\* again to a resulting table gives that table; likewise for apply_filters and
\* the order of the items of its filters_dict.
C4_IdempotentAnyOrder ==
    /\ pc = "ret_filter" =>
          LET cl == clauses_ok(fn_in.df, fn_in.search, fn_in.status, fn_in.ingest)
          IN /\ \A p \in Perms3 :
                   run_clauses(fn_in.df, fn_in.df, Permuted(cl, p)) = fn_out
             /\ fn_out.k = "return" =>
                   filter_ok(fn_out.v, fn_in.search, fn_in.status, fn_in.ingest)
                      = fn_out
    /\ pc = "ret_apply" =>
          LET d == filters_dict_of(fn_in.status, fn_in.ingest)
          IN /\ apply_filters(fn_in.df, <<d[2], d[1]>>) = fn_out.v
             /\ apply_filters(fn_out.v, d) = fn_out.v

\* Three active clauses, two of which drop nothing alone while the third does.
C4_Witness ==
    /\ pc = "ret_filter"
    /\ fn_in.search # <<>> /\ fn_in.status # {} /\ fn_in.ingest # {}
    /\ fn_out.k = "return"
    /\ len(fn_out.v) = 1
    /\ len(fn_in.df) = 2
    /\ len(filter_ok(fn_in.df, fn_in.search, {}, fn_in.ingest).v) = 2
    /\ len(filter_ok(fn_in.df, <<>>, fn_in.status, {}).v) = 1

-----------------------------------------------------------------------------
(* One run of main(): the uploads and the tables read from them *)

\* A numeric cell.
Num(n) == <<"#", n>>
IsNum(x) == Len(x) = 2 /\ x[1] = "#"

Txt_Matching == <<"M", "a", "t", "c", "h", "i", "n", "g">>
Txt_NotMatching == <<"N", "o", "t", " ", "M", "a", "t", "c", "h", "i", "n", "g">>
Txt_NA == <<"n", "/", "a">>

Odd(i) == i % 2 = 1

\* The cell of row i of the uploaded file of a role under header c.
DatasetIdCell(role, i) ==
    CASE role = "df_ok" -> IF Odd(i) THEN <<"a", "1">> ELSE <<"b", "1">>
      [] role = "df_partial" -> IF i <= 2 THEN <<"a", "b">> ELSE <<"a", "2">>
      [] role = "df_not_ok" -> IF Odd(i) THEN <<"b", "3">> ELSE NaN
      [] OTHER -> IF Odd(i) THEN <<"b", "3">> ELSE <<"a", "3">>

SanityReasonCell(role, i) ==
    CASE role = "df_ok" -> <<"C", "a", "s", "e", " ", "1">>
      [] role = "df_partial" ->
            IF Odd(i) THEN <<"C", "a", "s", "e", " ", "2", " ", "x">> ELSE NaN
      [] OTHER ->
            IF Odd(i) THEN <<"C", "a", "s", "e", " ", "1", "0">>
            ELSE <<"c", "a", "s", "e", " ", "3">>

StatusFlagCell(role, i) ==
    IF role = "df_partial"
    THEN (IF Odd(i) THEN Txt_NotMatching ELSE Txt_Matching)
    ELSE (IF Odd(i) THEN Txt_Matching ELSE Txt_NA)

Cell(role, c, i) ==
    CASE c = "Dataset ID" -> DatasetIdCell(role, i)
      [] c \in {"Ingest type", "ingest_type"} -> IF Odd(i) THEN <<"f">> ELSE <<"i">>
      [] c = "Ingestion type" -> <<"F">>
      [] c = "Status" -> <<"o", "k">>
      [] c \in {"Status flag", "status_flag", "Status Flag"} -> StatusFlagCell(role, i)
      [] c \in {"Max date not matching", "max_date_matching", "Max Date"} ->
            IF Odd(i) THEN <<"Y">> ELSE NaN
      [] c \in {"Sanity reason", "sanity reason", "sanity_reason", "Sanity Reason"} ->
            SanityReasonCell(role, i)
      [] c = "old count" -> IF Odd(i) THEN <<"5">> ELSE <<"x">>
      [] c = "new count" -> Num(3)
      [] c \in {"% data match", "data_match_pct", "% Data Match"} ->
            IF i = 2 THEN <<"T">> ELSE IF i = 1 THEN <<"9", "0">> ELSE <<"1", "0">>
      [] OTHER -> Num(50)

\* What pd.read_csv gives for the file of a role with headers cols and n rows.
read_csv(role, cols, n) ==
    DataFrame(cols, [i \in 1..n |-> [c \in cols |-> Cell(role, c, i)]])

OkHeaders ==
    {{"Dataset ID", "Ingest type", "Status", "Sanity reason"},
     {"Ingest type", "Status"},
     {"Dataset ID", "Ingestion type", "Ingest type"}}

PartialHeaders ==
    {{"Dataset ID", "Ingest type", "Status flag", "Max date not matching", "Sanity reason"},
     {"Dataset ID", "Ingestion type", "Ingest type", "Status Flag"},
     {"Status flag", "Sanity reason"}}

NotOkHeaders ==
    {{"Dataset ID", "Ingest type", "Status flag", "Sanity reason", "old count", "new count"},
     {"Dataset ID", "old count", "Max Date"},
     {"Status flag", "Sanity reason"}}

SummaryHeaders ==
    {{"Dataset ID", "% data match", "% date match"},
     {"% data match"}}

Roles == {"df_ok", "df_partial", "df_not_ok", "df_summary"}

Csv(df) == [state |-> "csv", df |-> df]
NoFile == [state |-> "none", df |-> NoneDF]
BadFile == [state |-> "bad", df |-> NoneDF]

CsvFiles(role, headers) ==
    {Csv(read_csv(role, cols, n)) : cols \in headers, n \in {0, MaxRows}}

\* The headers the files of a role may have.
HeadersOf(role) ==
    CASE role = "df_ok" -> OkHeaders
      [] role = "df_partial" -> PartialHeaders
      [] role = "df_not_ok" -> NotOkHeaders
      [] OTHER -> SummaryHeaders

\* The uploads of a run: four files with every known column and MaxRows rows,
\* or these with one of them replaced (other headers, no rows, missing,
\* unparseable), or four files without rows.
DefaultUploads ==
    [df_ok |-> Csv(read_csv("df_ok",
                {"Dataset ID", "Ingest type", "Status", "Sanity reason"}, MaxRows)),
     df_partial |-> Csv(read_csv("df_partial",
                {"Dataset ID", "Ingest type", "Status flag", "Max date not matching",
                 "Sanity reason"}, MaxRows)),
     df_not_ok |-> Csv(read_csv("df_not_ok",
                {"Dataset ID", "Ingest type", "Status flag", "Sanity reason",
                 "old count", "new count"}, MaxRows)),
     df_summary |-> Csv(read_csv("df_summary",
                {"Dataset ID", "% data match", "% date match"}, MaxRows))]

EmptyUploads ==
    [r \in Roles |-> Csv(read_csv(r, {"Dataset ID"}, 0))]

Uploads ==
    UNION {{[DefaultUploads EXCEPT ![r] = f] :
               f \in CsvFiles(r, HeadersOf(r)) \cup {NoFile, BadFile}} : r \in Roles}
    \cup {EmptyUploads}

Init ==
    /\ pc = "gate"
    /\ err = "none"
    /\ fn_in = NoArg
    /\ fn_out = NoArg
    /\ files \in Uploads
    /\ heap = <<>>
    /\ ingested = <<>>
    /\ bindings = {}
    /\ widgets = <<>>
    /\ out = [step |-> "start"]
    /\ pandas_major \in {2, 3}

\* What a step of main() leaves alone besides the variables it writes.
fixed == <<fn_in, fn_out, files, pandas_major>>

\* The gate asking for the Summary upload as well.
GateRequiringSummary ==
    /\ pc = "gate"
    /\ IF \A r \in Roles : files[r].state # "none"
       THEN pc' = "load" /\ out' = [step |-> "gate", prompt |-> FALSE]
       ELSE pc' = "stopped" /\ out' = [step |-> "gate", prompt |-> TRUE]
    /\ UNCHANGED <<err, heap, ingested, bindings, widgets, fixed>>

\* if not (ok_file and partial_file and not_ok_file): ...; return
Gate ==
    /\ pc = "gate"
    /\ IF \A r \in {"df_ok", "df_partial", "df_not_ok"} : files[r].state # "none"
       THEN pc' = "load" /\ out' = [step |-> "gate", prompt |-> FALSE]
       ELSE pc' = "stopped" /\ out' = [step |-> "gate", prompt |-> TRUE]
    /\ UNCHANGED <<err, heap, ingested, bindings, widgets, fixed>>

\* try: df_ok = pd.read_csv(ok_file) ... except Exception: st.error(...); return
Load ==
    /\ pc = "load"
    /\ IF \E r \in Roles : files[r].state = "bad"
       THEN /\ pc' = "stopped"
            /\ out' = [step |-> "load", error |-> TRUE]
            /\ UNCHANGED <<heap, ingested>>
       ELSE /\ pc' = "metrics"
            /\ out' = [step |-> "load", error |-> FALSE]
            /\ heap' = [r \in Roles |-> files[r].df]
            /\ ingested' = [r \in Roles |-> files[r].df]
    /\ UNCHANGED <<err, bindings, widgets, fixed>>

\* The objects named by df_ok, df_partial, df_not_ok, df_summary.
Keep(h) == [r \in Roles |-> h[r]]

\* The heap h with object obj holding df.
Store(h, obj, df) == [o \in DOMAIN h \cup {obj} |-> IF o = obj THEN df ELSE h[o]]

Txt_N_A == <<"N", "/", "A">>

SanityRunDateAliases == <<"sanity run date", "sanity_run_date", "Sanity run date">>

\* The loop returning "N/A" at the first date column present that has no cell.
RECURSIVE get_sanity_run_date_first_present(_, _)
get_sanity_run_date_first_present(df, date_cols) ==
    IF date_cols = <<>> THEN Txt_N_A
    ELSE LET col == Head(date_cols)
             dates == IF col \in df.cols
                      THEN SelectSeq(Column(df, col), LAMBDA x : ~isna(x)) ELSE <<>>
         IN IF col \in df.cols
            THEN (IF dates # <<>> THEN dates[1] ELSE Txt_N_A)
            ELSE get_sanity_run_date_first_present(df, Tail(date_cols))

\* def get_sanity_run_date(df): the first present cell of the first date column
\* that has one, "N/A" when there is none.
RECURSIVE get_sanity_run_date_loop(_, _)
get_sanity_run_date_loop(df, date_cols) ==
    IF date_cols = <<>> THEN Txt_N_A
    ELSE LET col == Head(date_cols)
             dates == IF col \in df.cols
                      THEN SelectSeq(Column(df, col), LAMBDA x : ~isna(x)) ELSE <<>>
         IN IF dates # <<>> THEN dates[1]
            ELSE get_sanity_run_date_loop(df, Tail(date_cols))

get_sanity_run_date(df) == get_sanity_run_date_loop(df, SanityRunDateAliases)

\* a or b: b when a is falsy (the number 0, the empty text).
or_else(a, b) == IF a = <<>> \/ a = Num(0) THEN b ELSE a

\* Lines 652-660.
Metrics ==
    /\ pc = "metrics"
    /\ pc' = "case"
    /\ LET ok_count == dataset_count(heap["df_ok"])
           partial_count == dataset_count(heap["df_partial"])
           not_ok_count == dataset_count(heap["df_not_ok"])
           total_count == total_count_of(ok_count, partial_count, not_ok_count)
       IN out' = [step |-> "metrics", ok_count |-> ok_count,
                  partial_count |-> partial_count, not_ok_count |-> not_ok_count,
                  total_count |-> total_count,
                  success_rate |-> success_rate_of(ok_count, total_count),
                  sanity_date |-> or_else(get_sanity_run_date(heap["df_ok"]),
                                          get_sanity_run_date(heap["df_not_ok"]))]
    /\ heap' = Keep(heap)
    /\ UNCHANGED <<err, ingested, bindings, widgets, fixed>>

-----------------------------------------------------------------------------
(* The Overview tab *)

Cat_OK == <<"O", "K">>
Cat_PartialOK == <<"P", "a", "r", "t", "i", "a", "l", " ", "O", "K">>
Cat_NotOK == <<"N", "o", "t", " ", "O", "K">>

\* df[c] = vals (and df.assign(c=vals)): column c set, the others as they are.
with_column(df, c, vals) ==
    DataFrame(df.cols \cup {c},
              [i \in 1..len(df) |->
                  [k \in df.cols \cup {c} |-> IF k = c THEN vals[i] ELSE df.rows[i][k]]])

\* df.assign(Category=category)
assign_category(df, category) ==
    with_column(df, "Category", [i \in 1..len(df) |-> category])

\* pd.DataFrame()
EmptyDF == DataFrame({}, <<>>)

\* pd.concat(frames, ignore_index=True): the union of the columns, the rows one
\* frame after the other, a cell of a column the frame lacks missing.
RECURSIVE concat_rows(_, _)
concat_rows(frames, cols) ==
    IF frames = <<>> THEN <<>>
    ELSE LET f == Head(frames)
         IN [i \in 1..len(f) |->
                [c \in cols |-> IF c \in f.cols THEN f.rows[i][c] ELSE NaN]]
            \o concat_rows(Tail(frames), cols)

concat(frames) ==
    LET cols == UNION {frames[i].cols : i \in DOMAIN frames}
    IN DataFrame(cols, concat_rows(frames, cols))

\* The characters of the model in code point order.
Ascii == <<" ", "#", "(", ".", "/", "0", "1", "2", "3", "4", "5", "6", "7", "8", "9">>
         \o UpperCase \o LowerCase

Ord(ch) == CHOOSE i \in 1..Len(Ascii) : Ascii[i] = ch

\* a < b for Python str.
RECURSIVE TextLess(_, _)
TextLess(a, b) ==
    IF b = <<>> THEN FALSE
    ELSE IF a = <<>> THEN TRUE
    ELSE IF Head(a) = Head(b) THEN TextLess(Tail(a), Tail(b))
    ELSE Ord(Head(a)) < Ord(Head(b))

\* The texts of a set in ascending str order.
RECURSIVE SortedTexts(_)
SortedTexts(S) ==
    IF S = {} THEN <<>>
    ELSE LET least == CHOOSE x \in S : \A y \in S \ {x} : TextLess(x, y)
         IN <<least>> \o SortedTexts(S \ {least})

\* series.value_counts() of the labels, then sort_values('Case').
case_counts_of(labels) ==
    LET sorted == SortedTexts(Range(labels))
    IN [j \in 1..Len(sorted) |->
           [Case |-> sorted[j],
            Count |-> Cardinality({i \in DOMAIN labels : labels[i] = sorted[j]})]]

SanityReasonAliases == <<"Sanity reason", "sanity reason", "sanity_reason", "Sanity Reason">>

\* def create_case_distribution_bar(df): None, or the figure's data and df as
\* the function leaves it (with its 'Case' column).
create_case_distribution_bar(df) ==
    LET col_name == ResolveFor(SanityReasonAliases, df.cols)
    IN IF col_name = None THEN [k |-> "none", col_name |-> None, df |-> df]
       ELSE LET labels == [i \in 1..len(df) |->
                              extract_case_number(df.rows[i][col_name])]
            IN [k |-> "fig", col_name |-> col_name,
                df |-> with_column(df, "Case", labels),
                case_counts |-> case_counts_of(labels)]

\* df.assign(Category=...) if not df.empty else pd.DataFrame()
tagged(df, category) == IF ~empty(df) THEN assign_category(df, category) ELSE EmptyDF

\* Lines 709-719.
OverviewCase ==
    /\ pc = "case"
    /\ pc' = "ingest"
    /\ LET all_cases_df == concat(<<tagged(heap["df_ok"], Cat_OK),
                                    tagged(heap["df_partial"], Cat_PartialOK),
                                    tagged(heap["df_not_ok"], Cat_NotOK)>>)
       IN IF ~empty(all_cases_df)
          THEN LET fig_cases == create_case_distribution_bar(all_cases_df)
               IN /\ heap' = Store(Keep(heap), "all_cases_df", fig_cases.df)
                  /\ out' = [step |-> "case", fig_cases |-> fig_cases.k,
                             case_counts |-> IF fig_cases.k = "fig"
                                             THEN fig_cases.case_counts ELSE <<>>]
                  /\ bindings' = bindings \cup
                        {<<"chart", "all_cases_df", "sanityReason", fig_cases.col_name>>}
          ELSE /\ heap' = Store(Keep(heap), "all_cases_df", all_cases_df)
               /\ out' = [step |-> "case", fig_cases |-> "none", case_counts |-> <<>>]
               /\ UNCHANGED bindings
    /\ UNCHANGED <<err, ingested, widgets, fixed>>

\* series.unique(): the distinct cells in the order of their first appearance.
RECURSIVE unique(_)
unique(series) ==
    IF series = <<>> THEN <<>>
    ELSE LET before == unique(SubSeq(series, 1, Len(series) - 1))
             last == series[Len(series)]
         IN IF last \in Range(before) THEN before ELSE Append(before, last)

\* len(df[df[col] == v]['Dataset ID'].unique()); a missing v equals no cell.
count_for(df, col, v) ==
    Cardinality({df.rows[i]["Dataset ID"] :
                    i \in {j \in 1..len(df) : ~isna(v) /\ df.rows[j][col] = v}})

\* The loop of create_ingest_type_bar and of create_max_date_bar over
\* (df, category): the rows of data, or the error raised.
RECURSIVE cross_tab(_, _, _)
cross_tab(frames, possible_cols, data) ==
    IF frames = <<>> THEN Returned(data)
    ELSE LET df == Head(frames).df
             category == Head(frames).category
         IN IF ~IsNone(df) /\ ~empty(df)
            THEN LET col == ResolveFor(possible_cols, df.cols)
                 IN IF col # None
                    THEN IF "Dataset ID" \notin df.cols THEN Raised("KeyError")
                         ELSE LET values == unique(Column(df, col))
                              IN cross_tab(Tail(frames), possible_cols,
                                    data \o [j \in 1..Len(values) |->
                                               [Category |-> category,
                                                Value |-> str(values[j]),
                                                Count |-> count_for(df, col, values[j])]])
                    ELSE cross_tab(Tail(frames), possible_cols, data)
            ELSE cross_tab(Tail(frames), possible_cols, data)

Framed(df, category) == [df |-> df, category |-> category]

IngestTypeAliases == <<"Ingestion type", "Ingest type", "ingest_type">>
StatusFlagAliases == <<"Status flag", "status_flag", "Status Flag">>
MaxDateAliases == <<"Max date not matching", "max_date_matching", "Max Date">>

\* def create_ingest_type_bar(df_ok, df_partial, df_not_ok)
create_ingest_type_bar(df_ok, df_partial, df_not_ok) ==
    cross_tab(<<Framed(df_ok, Cat_OK), Framed(df_partial, Cat_PartialOK),
                Framed(df_not_ok, Cat_NotOK)>>, IngestTypeAliases, <<>>)

\* def create_max_date_bar(df_partial, df_not_ok)
create_max_date_bar(df_partial, df_not_ok) ==
    cross_tab(<<Framed(df_partial, Cat_PartialOK), Framed(df_not_ok, Cat_NotOK)>>,
              MaxDateAliases, <<>>)

\* The columns a chart binds in the tables it reads.
ChartBindings(tables, field, possible_cols) ==
    {<<"chart", t, field, ResolveFor(possible_cols, heap[t].cols)>> :
        t \in {u \in tables : ~IsNone(heap[u]) /\ ~empty(heap[u])}}

\* A step that raises: Streamlit shows the exception and the run ends.
Crashed(step, e) ==
    /\ pc' = "crashed"
    /\ err' = e
    /\ out' = [step |-> step, raised |-> e]

\* Line 725.
OverviewIngest ==
    /\ pc = "ingest"
    /\ LET fig == create_ingest_type_bar(heap["df_ok"], heap["df_partial"],
                                         heap["df_not_ok"])
       IN IF fig.k = "raise"
          THEN Crashed("ingest", fig.v) /\ UNCHANGED bindings
          ELSE /\ pc' = "status"
               /\ out' = [step |-> "ingest", data |-> fig.v]
               /\ bindings' = bindings \cup
                     ChartBindings({"df_ok", "df_partial", "df_not_ok"}, "ingestType",
                                   IngestTypeAliases)
               /\ UNCHANGED err
    /\ heap' = Keep(heap)
    /\ UNCHANGED <<ingested, widgets, fixed>>

\* needle in text, for Python str.
Contains(text, needle) ==
    \E i \in 0..(Len(text) - Len(needle)) :
        \A k \in 1..Len(needle) : text[i + k] = needle[k]

\* The bucket of one status value: "Matching", "Unmatching" or "neither".
status_bucket(status) ==
    LET status_str == LowerStr(strip(str(status)))
    IN IF Contains(status_str, <<"m", "a", "t", "c", "h">>)
       THEN IF Contains(status_str, <<"u", "n">>) \/ Contains(status_str, <<"n", "o", "t">>)
            THEN "Unmatching" ELSE "Matching"
       ELSE "neither"

\* df.groupby(status_col)['Dataset ID'].nunique() summed over the status
\* values of a bucket: a missing status forms no group, a missing ID is not
\* counted.
bucket_count(df, status_col, bucket) ==
    LET keys == {x \in Range(Column(df, status_col)) :
                    ~isna(x) /\ status_bucket(x) = bucket}
        n[K \in SUBSET keys] ==
            IF K = {} THEN 0
            ELSE LET x == CHOOSE y \in K : TRUE
                 IN n[K \ {x}] +
                    Cardinality({df.rows[i]["Dataset ID"] :
                                    i \in {j \in 1..len(df) :
                                             df.rows[j][status_col] = x}} \ {NaN})
    IN n[keys]

\* def create_status_flag_pie(df_partial, df_not_ok): the status_counts, or
\* the error raised.
RECURSIVE status_flag_counts(_, _)
status_flag_counts(frames, status_counts) ==
    IF frames = <<>> THEN Returned(status_counts)
    ELSE LET df == Head(frames)
         IN IF ~IsNone(df) /\ ~empty(df)
            THEN LET status_col == ResolveFor(StatusFlagAliases, df.cols)
                 IN IF status_col # None
                    THEN IF "Dataset ID" \notin df.cols THEN Raised("KeyError")
                         ELSE status_flag_counts(Tail(frames),
                                [Matching |-> status_counts.Matching
                                     + bucket_count(df, status_col, "Matching"),
                                 Unmatching |-> status_counts.Unmatching
                                     + bucket_count(df, status_col, "Unmatching")])
                    ELSE status_flag_counts(Tail(frames), status_counts)
            ELSE status_flag_counts(Tail(frames), status_counts)

create_status_flag_pie(df_partial, df_not_ok) ==
    status_flag_counts(<<df_partial, df_not_ok>>, [Matching |-> 0, Unmatching |-> 0])

\* Line 730.
OverviewStatus ==
    /\ pc = "status"
    /\ LET fig == create_status_flag_pie(heap["df_partial"], heap["df_not_ok"])
       IN IF fig.k = "raise"
          THEN Crashed("status", fig.v) /\ UNCHANGED bindings
          ELSE /\ pc' = "maxdate"
               /\ out' = [step |-> "status", status_counts |-> fig.v,
                          fig_status |-> IF fig.v.Matching + fig.v.Unmatching = 0
                                         THEN "none" ELSE "fig"]
               /\ bindings' = bindings \cup
                     ChartBindings({"df_partial", "df_not_ok"}, "statusFlag",
                                   StatusFlagAliases)
               /\ UNCHANGED err
    /\ heap' = Keep(heap)
    /\ UNCHANGED <<ingested, widgets, fixed>>

\* Line 737.
OverviewMaxDate ==
    /\ pc = "maxdate"
    /\ LET fig == create_max_date_bar(heap["df_partial"], heap["df_not_ok"])
       IN IF fig.k = "raise"
          THEN Crashed("maxdate", fig.v) /\ UNCHANGED bindings
          ELSE /\ pc' = "export"
               /\ out' = [step |-> "maxdate", data |-> fig.v]
               /\ bindings' = bindings \cup
                     ChartBindings({"df_partial", "df_not_ok"}, "maxDateStatus",
                                   MaxDateAliases)
               /\ UNCHANGED err
    /\ heap' = Keep(heap)
    /\ UNCHANGED <<ingested, widgets, fixed>>

SheetNameMax == 31

\* sheet_name[:31]
sheet_title(sheet_name) ==
    SubSeq(sheet_name, 1, IF Len(sheet_name) < SheetNameMax THEN Len(sheet_name)
                          ELSE SheetNameMax)

\* def convert_dfs_to_excel(dfs_dict): the titles of the sheets written, in
\* order; a workbook with no sheet cannot be saved (openpyxl: at least one sheet
\* must be visible).
convert_dfs_to_excel(dfs_dict) ==
    LET written == SelectSeq(dfs_dict, LAMBDA e : ~IsNone(e.df) /\ ~empty(e.df))
    IN IF written = <<>> THEN Raised("IndexError")
       ELSE Returned([i \in 1..Len(written) |-> sheet_title(written[i].sheet_name)])

Sheet_OK == <<"O", "K", " ", "D", "a", "t", "a", "s", "e", "t", "s">>
Sheet_Partial == <<"P", "a", "r", "t", "i", "a", "l", " ", "O", "K">>
Sheet_NotOK == <<"N", "o", "t", " ", "O", "K">>
Sheet_Summary == <<"S", "u", "m", "m", "a", "r", "y">>

\* The dict of line 745.
export_bundle(h) ==
    <<[sheet_name |-> Sheet_OK, df |-> h["df_ok"]],
      [sheet_name |-> Sheet_Partial, df |-> h["df_partial"]],
      [sheet_name |-> Sheet_NotOK, df |-> h["df_not_ok"]],
      [sheet_name |-> Sheet_Summary, df |-> h["df_summary"]]>>

\* Lines 745-750.
Export ==
    /\ pc = "export"
    /\ LET excel_data == convert_dfs_to_excel(export_bundle(heap))
       IN IF excel_data.k = "raise" THEN Crashed("export", excel_data.v)
          ELSE /\ pc' = "tab_ok"
               /\ out' = [step |-> "export", sheets |-> excel_data.v]
               /\ UNCHANGED err
    /\ heap' = Keep(heap)
    /\ UNCHANGED <<ingested, bindings, widgets, fixed>>

-----------------------------------------------------------------------------
(* The tabs of the tables *)

\* filtered = df: the variable names the same object.
copy_by_reference(src, target) == src

\* filtered = df.copy(): the object the variable target names afterwards, a new
\* one (src is the object copied).
copy(src, target) == target

\* Whether a clause runs its selection.
Active(c) == IF c.k = "search" THEN c.term # <<>> ELSE c.values # {} /\ c.col # None

\* target = h[src].copy(), then the clauses: the heap afterwards and the object
\* target names (a selection makes a new object), or the error raised.
filtered_view(h, src, target, clauses) ==
    LET o0 == copy(src, target)
        h0 == Store(h, o0, h[src])
        r == run_clauses(h0[o0], h0[o0], clauses)
        obj == IF \E i \in DOMAIN clauses : Active(clauses[i]) THEN target ELSE o0
    IN IF r.k = "raise" THEN r
       ELSE [k |-> "return", heap |-> Store(h0, obj, r.v), obj |-> obj]

\* What the user may have typed in a search box, and selected in a multiselect
\* with the given options (nothing, or one option).
SearchInputs == {<<>>, <<"b">>}
Selections(options) == {{}} \cup {{v} : v \in options}

\* st.multiselect(..., options=df[col].unique()) when col is bound, [] otherwise.
Multiselect(df, col) ==
    IF col # None THEN Selections(Range(Column(df, col))) ELSE {{}}

\* The same with options=df[col].dropna().unique().
MultiselectDropna(df, col) ==
    IF col # None THEN Selections(Range(Column(df, col)) \ {NaN}) ELSE {{}}

\* nunique() if 'Dataset ID' in filtered.columns else len(filtered)
unique_datasets_of(df) ==
    IF "Dataset ID" \in df.cols THEN nunique(Column(df, "Dataset ID")) ELSE len(df)

\* Lines 762-808.
TabOk ==
    /\ pc = "tab_ok"
    /\ LET df_ok == heap["df_ok"]
           status_col == status_col_ok(df_ok)
           ingest_col == ingest_col_ok(df_ok)
       IN \E search_ok \in SearchInputs,
             status_filter \in Multiselect(df_ok, status_col),
             ingest_filter \in Multiselect(df_ok, ingest_col) :
             LET v == filtered_view(Keep(heap), "df_ok", "filtered_ok",
                         clauses_ok(df_ok, search_ok, status_filter, ingest_filter))
             IN /\ widgets' = [search |-> search_ok, status |-> status_filter,
                               ingest |-> ingest_filter]
                /\ bindings' = bindings \cup {<<"tab", "df_ok", "ingestType", ingest_col>>}
                /\ IF v.k = "raise"
                   THEN Crashed("tab_ok", v.v) /\ heap' = Keep(heap)
                   ELSE /\ pc' = "tab_partial"
                        /\ heap' = v.heap
                        /\ out' = [step |-> "tab_ok", view |-> v.obj,
                                   records |-> len(v.heap[v.obj])]
                        /\ UNCHANGED err
    /\ UNCHANGED <<ingested, fixed>>

\* Lines 813-870.
TabPartial ==
    /\ pc = "tab_partial"
    /\ LET df_partial == heap["df_partial"]
           ingest_col == NextIn(<<"Ingest type", "Ingestion type">>, df_partial.cols)
           max_date_col == NextIn(<<"Max date not matching", "max_date_matching">>,
                                  df_partial.cols)
           reason_col == NextIn(<<"Sanity reason", "sanity reason", "Sanity Reason">>,
                                df_partial.cols)
       IN \E search_partial \in SearchInputs,
             ingest_partial \in Multiselect(df_partial, ingest_col),
             max_date_partial \in Multiselect(df_partial, max_date_col),
             reason_partial \in MultiselectDropna(df_partial, reason_col) :
             LET v == filtered_view(Keep(heap), "df_partial", "filtered_partial",
                         <<SearchClause(search_partial),
                           IsinClause(ingest_col, ingest_partial),
                           IsinClause(max_date_col, max_date_partial),
                           IsinClause(reason_col, reason_partial)>>)
             IN /\ widgets' = [search |-> search_partial, ingest |-> ingest_partial,
                               max_date |-> max_date_partial, reason |-> reason_partial]
                /\ bindings' = bindings \cup
                      {<<"tab", "df_partial", "ingestType", ingest_col>>,
                       <<"tab", "df_partial", "maxDateStatus", max_date_col>>,
                       <<"tab", "df_partial", "sanityReason", reason_col>>}
                /\ IF v.k = "raise"
                   THEN Crashed("tab_partial", v.v) /\ heap' = Keep(heap)
                   ELSE /\ pc' = "tab_notok"
                        /\ heap' = v.heap
                        /\ out' = [step |-> "tab_partial", view |-> v.obj,
                                   records |-> len(v.heap[v.obj]),
                                   unique_datasets |-> unique_datasets_of(v.heap[v.obj])]
                        /\ UNCHANGED err
    /\ UNCHANGED <<ingested, fixed>>

\* The integer a text of digits spells.
RECURSIVE digits_value(_)
digits_value(s) ==
    IF s = <<>> THEN 0
    ELSE 10 * digits_value(SubSeq(s, 1, Len(s) - 1))
         + (CHOOSE d \in 0..9 : Ascii[Ord("0") + d] = s[Len(s)])

\* pd.to_numeric(series, errors='coerce') on one cell: a number as it is, a
\* text of digits (blanks around it allowed) as its number, anything else
\* missing.
to_numeric(x) ==
    IF isna(x) THEN NaN
    ELSE IF IsNum(x) THEN x
    ELSE LET t == strip(x)
         IN IF t # <<>> /\ \A i \in 1..Len(t) : IsDigit(t[i])
            THEN Num(digits_value(t)) ELSE NaN

\* a - b with a missing operand taken as 0.
minus_zero_filled(a, b) ==
    Num((IF isna(a) THEN 0 ELSE a[2]) - (IF isna(b) THEN 0 ELSE b[2]))

\* a - b on numeric cells: missing when either is.
minus(a, b) == IF isna(a) \/ isna(b) THEN NaN ELSE Num(a[2] - b[2])

\* filtered_notok['Count Diff'] = to_numeric(old count) - to_numeric(new count)
with_count_diff(df) ==
    with_column(df, "Count Diff",
        [i \in 1..len(df) |-> minus(to_numeric(df.rows[i]["old count"]),
                                    to_numeric(df.rows[i]["new count"]))])

\* Lines 875-940.
TabNotOk ==
    /\ pc = "tab_notok"
    /\ LET df_not_ok == heap["df_not_ok"]
           ingest_col == NextIn(<<"Ingest type", "Ingestion type">>, df_not_ok.cols)
           status_col == NextIn(<<"Status flag", "status_flag">>, df_not_ok.cols)
           reason_col == NextIn(<<"Sanity reason", "sanity reason", "Sanity Reason">>,
                                df_not_ok.cols)
       IN \E search_notok \in SearchInputs,
             ingest_notok \in Multiselect(df_not_ok, ingest_col),
             status_notok \in Multiselect(df_not_ok, status_col),
             reason_notok \in MultiselectDropna(df_not_ok, reason_col) :
             LET v == filtered_view(Keep(heap), "df_not_ok", "filtered_notok",
                         <<SearchClause(search_notok),
                           IsinClause(ingest_col, ingest_notok),
                           IsinClause(status_col, status_notok),
                           IsinClause(reason_col, reason_notok)>>)
             IN /\ widgets' = [search |-> search_notok, ingest |-> ingest_notok,
                               status |-> status_notok, reason |-> reason_notok]
                /\ bindings' = bindings \cup
                      {<<"tab", "df_not_ok", "ingestType", ingest_col>>,
                       <<"tab", "df_not_ok", "statusFlag", status_col>>,
                       <<"tab", "df_not_ok", "sanityReason", reason_col>>}
                /\ IF v.k = "raise"
                   THEN Crashed("tab_notok", v.v) /\ heap' = Keep(heap)
                   ELSE LET filtered_notok == v.heap[v.obj]
                        IN /\ pc' = "tab_summary"
                           /\ heap' = IF {"old count", "new count"} \subseteq
                                            filtered_notok.cols
                                      THEN Store(v.heap, v.obj,
                                                 with_count_diff(filtered_notok))
                                      ELSE v.heap
                           /\ out' = [step |-> "tab_notok", view |-> v.obj,
                                      records |-> len(filtered_notok),
                                      unique_datasets |->
                                          unique_datasets_of(filtered_notok)]
                           /\ UNCHANGED err
    /\ UNCHANGED <<ingested, fixed>>

-----------------------------------------------------------------------------
(* The Summary tab *)

\* for col in cols: df[col] = pd.to_numeric(df[col], errors='coerce')
coerce_columns(df, cols) ==
    DataFrame(df.cols,
              [i \in 1..len(df) |->
                  [c \in df.cols |-> IF c \in cols THEN to_numeric(df.rows[i][c])
                                     ELSE df.rows[i][c]]])

\* df.dropna(subset=cols)
dropna(df, cols) ==
    DataFrame(df.cols, SelectSeq(df.rows, LAMBDA row : \A c \in cols : ~isna(row[c])))

RECURSIVE SumOf(_)
SumOf(series) == IF series = <<>> THEN 0 ELSE Head(series)[2] + SumOf(Tail(series))

\* describe().loc['mean', col] of a numeric column, as the fraction sum/count
\* of its present cells; missing when it has none.
mean_of(series) ==
    LET present == SelectSeq(series, LAMBDA x : ~isna(x))
    IN IF present = <<>> THEN NaN ELSE [num |-> SumOf(present), den |-> Len(present)]

DataMatchAliases == <<"% data match", "data_match_pct", "% Data Match">>
DateMatchAliases == <<"% date match", "date_match_pct", "% Date Match">>

\* def create_data_match_histogram(df_summary): None, or df_plot.
create_data_match_histogram(df_summary) ==
    IF IsNone(df_summary) \/ empty(df_summary) THEN [k |-> "none", col |-> None]
    ELSE LET data_match_col == ResolveFor(DataMatchAliases, df_summary.cols)
         IN IF data_match_col = None THEN [k |-> "none", col |-> None]
            ELSE [k |-> "fig", col |-> data_match_col,
                  df_plot |-> dropna(coerce_columns(df_summary, {data_match_col}),
                                     {data_match_col})]

\* def create_match_scatter(df_summary): None, or df_plot.
create_match_scatter(df_summary) ==
    IF IsNone(df_summary) \/ empty(df_summary) THEN [k |-> "none"]
    ELSE LET date_match_col == ResolveFor(DateMatchAliases, df_summary.cols)
             data_match_col == ResolveFor(DataMatchAliases, df_summary.cols)
         IN IF date_match_col = None \/ data_match_col = None THEN [k |-> "none"]
            ELSE LET df_plot == dropna(coerce_columns(df_summary,
                                           {date_match_col, data_match_col}),
                                       {date_match_col, data_match_col})
                 IN IF empty(df_plot) THEN [k |-> "none"]
                    ELSE [k |-> "fig", df_plot |-> df_plot]

BottomN == 10

\* nsmallest taking, among rows of equal value, the last one first.
RECURSIVE nsmallest_last_of_ties(_, _, _)
nsmallest_last_of_ties(rows, n, col) ==
    IF rows = <<>> \/ n = 0 THEN <<>>
    ELSE LET i == CHOOSE j \in 1..Len(rows) :
                     /\ \A k \in 1..Len(rows) : rows[j][col][2] <= rows[k][col][2]
                     /\ \A k \in (j + 1)..Len(rows) : rows[k][col][2] > rows[j][col][2]
         IN <<rows[i]>> \o
            nsmallest_last_of_ties(SubSeq(rows, 1, i - 1) \o SubSeq(rows, i + 1, Len(rows)),
                                   n - 1, col)

\* df.nsmallest(n, col) on a frame without missing cells in col: the rows in
\* ascending order of col, ties in the order of the frame, the first n of them.
RECURSIVE nsmallest(_, _, _)
nsmallest(rows, n, col) ==
    IF rows = <<>> \/ n = 0 THEN <<>>
    ELSE LET i == CHOOSE j \in 1..Len(rows) :
                     /\ \A k \in 1..Len(rows) : rows[j][col][2] <= rows[k][col][2]
                     /\ \A k \in 1..(j - 1) : rows[k][col][2] > rows[j][col][2]
         IN <<rows[i]>> \o
            nsmallest(SubSeq(rows, 1, i - 1) \o SubSeq(rows, i + 1, Len(rows)), n - 1, col)

NumericCols == {"% date match", "% date unmatch", "% data match", "% data unmatch"}

\* Lines 945-1026.
TabSummary ==
    /\ pc = "tab_summary"
    /\ LET df_summary == heap["df_summary"]
       IN IF IsNone(df_summary) \/ empty(df_summary)
          THEN /\ pc' = "done"
               /\ out' = [step |-> "tab_summary", warning |-> TRUE]
               /\ heap' = Keep(heap)
               /\ widgets' = <<>>
               /\ UNCHANGED <<err, bindings>>
          ELSE \E search_summary \in SearchInputs :
               LET available_cols == NumericCols \cap df_summary.cols
                   \* summary_display = df_summary.copy(), coerced
                   o1 == copy("df_summary", "summary_display")
                   h1 == IF available_cols # {}
                         THEN Store(Keep(heap), o1,
                                    coerce_columns(df_summary, available_cols))
                         ELSE Keep(heap)
                   fig_hist == create_data_match_histogram(h1["df_summary"])
                   fig_scatter == create_match_scatter(h1["df_summary"])
                   \* filtered_summary = df_summary.copy(), searched
                   o2 == copy("df_summary", "filtered_summary")
                   h2 == Store(h1, o2, h1["df_summary"])
                   found == IF search_summary # <<>>
                            THEN search_dataset(h2[o2], search_summary, "Dataset ID")
                            ELSE Returned(h2[o2])
                   data_match_col == NextIn(<<"% data match", "data_match_pct">>,
                                            h1["df_summary"].cols)
               IN /\ widgets' = [search |-> search_summary]
                  /\ bindings' = bindings \cup
                        {<<"chart", "df_summary", "dataMatchPct", fig_hist.col>>,
                         <<"tab", "df_summary", "dataMatchPct", data_match_col>>}
                  /\ IF found.k = "raise"
                     THEN Crashed("tab_summary", found.v) /\ heap' = h1
                     ELSE LET o2f == IF search_summary # <<>> THEN "filtered_summary"
                                     ELSE o2
                              h3 == Store(h2, o2f, found.v)
                              \* df_sorted = df_summary.copy(), coerced
                              o3 == copy("df_summary", "df_sorted")
                              coerced == coerce_columns(h3["df_summary"],
                                                        {data_match_col})
                              h4 == IF data_match_col # None
                                    THEN Store(h3, o3, coerced) ELSE h3
                              df_sorted ==
                                  IF data_match_col # None
                                  THEN DataFrame(coerced.cols,
                                          nsmallest(dropna(coerced, {data_match_col}).rows,
                                                    BottomN, data_match_col))
                                  ELSE NoneDF
                          IN /\ pc' = "done"
                             /\ heap' = IF data_match_col # None
                                        THEN Store(h4, "df_sorted", df_sorted) ELSE h4
                             /\ out' = [step |-> "tab_summary", warning |-> FALSE,
                                        means |-> [c \in available_cols |->
                                                     mean_of(Column(h1[o1], c))],
                                        fig_hist |-> fig_hist.k,
                                        fig_scatter |-> fig_scatter.k,
                                        records |-> len(found.v),
                                        lowest |-> df_sorted]
                             /\ UNCHANGED err
    /\ UNCHANGED <<ingested, fixed>>

\* Streamlit runs main() again on every interaction, with the same uploads.
Rerun ==
    /\ pc \in {"done", "crashed", "stopped"}
    /\ pc' = "gate"
    /\ err' = "none"
    /\ heap' = <<>>
    /\ ingested' = <<>>
    /\ bindings' = {}
    /\ widgets' = <<>>
    /\ out' = [step |-> "start"]
    /\ UNCHANGED fixed

Next ==
    \/ Gate
    \/ Load
    \/ Metrics
    \/ OverviewCase
    \/ OverviewIngest
    \/ OverviewStatus
    \/ OverviewMaxDate
    \/ Export
    \/ TabOk
    \/ TabPartial
    \/ TabNotOk
    \/ TabSummary
    \/ Rerun

Spec == Init /\ [][Next]_vars

\* C1: no operation reaches an error state because a column is absent from a
\* table: a run of the dashboard never ends in a KeyError.
C1_NoErrorForAbsentColumn == err # "KeyError"

\* C5: once the four tables are ingested, whatever the dashboard has done since,
\* each of them has the rows, columns and cells it had when ingested, and the
\* derived columns 'Case', 'Category' and 'Count Diff' are on none of them.
C5_IngestedTablesUntouched ==
    ingested # <<>> =>
        \A r \in Roles :
            /\ heap[r] = ingested[r]
            /\ ingested[r] = files[r].df
            /\ ~IsNone(heap[r]) =>
                  heap[r].cols \cap {"Case", "Category", "Count Diff"} = {}

\* The Not OK tab has run with every filter left empty and put 'Count Diff' on its
\* view, and the overview has put 'Case' on its own table before.
C5_Witness ==
    /\ pc = "tab_summary"
    /\ out.step = "tab_notok"
    /\ widgets.search = <<>> /\ widgets.ingest = {}
    /\ widgets.status = {} /\ widgets.reason = {}
    /\ out.view # "df_not_ok"
    /\ "Count Diff" \in heap[out.view].cols
    /\ \E i \in 1..len(heap[out.view]) : ~isna(heap[out.view].rows[i]["Count Diff"])
    /\ len(heap["df_not_ok"]) > 0

\* C7: for every table, every operation that resolves a canonical field binds it
\* to the same header of the table (or every one leaves it unbound).
C7_SameBindingEverywhere ==
    \A b1 \in bindings, b2 \in bindings :
        (b1[2] = b2[2] /\ b1[3] = b2[3]) => b1[4] = b2[4]

-----------------------------------------------------------------------------
(* The case distribution *)

IsCaseLabel(label) == Len(label) > 5 /\ SubSeq(label, 1, 5) = Txt_Case \o <<" ">>

CaseNumberOf(label) == digits_value(SubSeq(label, 6, Len(label)))

\* a comes before b in the order of the distribution as stated: by the number
\* of the case for two case labels, by the str order otherwise.
NumericAwareBefore(a, b) ==
    IF IsCaseLabel(a) /\ IsCaseLabel(b) THEN CaseNumberOf(a) < CaseNumberOf(b)
    ELSE TextLess(a, b)

\* C11: the case distribution has one entry per label extracted over the union
\* of the three tables, with the number of its occurrences, in ascending order
\* of the case number ("Case 2" before "Case 10"), "Unknown" by its str order.
C11_NumericAwareOrder ==
    (out.step = "case" /\ out.fig_cases = "fig") =>
        LET labels == Column(heap["all_cases_df"], "Case")
            cc == out.case_counts
        IN /\ {cc[j].Case : j \in DOMAIN cc} = Range(labels)
           /\ \A j \in DOMAIN cc :
                 cc[j].Count = Cardinality({i \in DOMAIN labels : labels[i] = cc[j].Case})
           /\ \A i \in DOMAIN cc, j \in DOMAIN cc :
                 i < j => NumericAwareBefore(cc[i].Case, cc[j].Case)

-----------------------------------------------------------------------------
(* create_status_flag_pie on its own *)

Txt_Unmatched == <<"U", "n", "m", "a", "t", "c", "h", "e", "d">>

StatusDom == [c \in {"Dataset ID", "Status flag"} |->
                 IF c = "Dataset ID" THEN {<<"a">>, <<"b">>, NaN}
                 ELSE {Txt_Matching, Txt_NotMatching, Txt_Unmatched, Txt_NA, NaN}]

\* The Not OK tables the tally is called with beside the Partial OK table.
StatusNotOkTables ==
    {DataFrame({"Dataset ID", "Status flag"}, <<>>),
     DataFrame({"Dataset ID", "Status flag"},
               <<[c \in {"Dataset ID", "Status flag"} |->
                     IF c = "Dataset ID" THEN <<"c">> ELSE Txt_Matching]>>),
     DataFrame({"Dataset ID", "Status Flag"},
               <<[c \in {"Dataset ID", "Status Flag"} |->
                     IF c = "Dataset ID" THEN <<"a">> ELSE Txt_Unmatched]>>)}

InitStatus ==
    /\ pc = "call"
    /\ fn_in \in [df_partial : TablesOver({"Dataset ID", "Status flag"}, StatusDom, MaxRows)
                               \cup TablesOver({"Status flag"}, StatusDom, MaxRows),
                  df_not_ok : StatusNotOkTables]
    /\ fn_out = NoArg
    /\ Idle

CreateStatusFlagPieCall ==
    /\ pc = "call"
    /\ pc' = "ret"
    /\ fn_out' = create_status_flag_pie(fn_in.df_partial, fn_in.df_not_ok)
    /\ UNCHANGED caller

NextStatus == CreateStatusFlagPieCall

SpecStatus == InitStatus /\ [][NextStatus]_vars

\* The bucket of a status value as stated: by the lower-cased value.
ClassifyStatusFlag(v) ==
    LET low == LowerStr(v)
    IN IF ~Contains(low, <<"m", "a", "t", "c", "h">>) THEN "neither"
       ELSE IF Contains(low, <<"u", "n">>) \/ Contains(low, <<"n", "o", "t">>)
            THEN "Unmatching" ELSE "Matching"

\* The status column of a table, None when it has none.
StatusColumnOf(df) ==
    IF \E c \in Range(StatusFlagAliases) : c \in df.cols
    THEN CHOOSE c \in Range(StatusFlagAliases) :
            /\ c \in df.cols
            /\ \A i \in DOMAIN StatusFlagAliases :
                  StatusFlagAliases[i] \in df.cols =>
                     \E j \in 1..i : StatusFlagAliases[j] = c
    ELSE None

\* What a table adds to a bucket: the pairs (status value, Dataset ID) of its
\* rows whose status value is in the bucket.
TallyOf(df, bucket) ==
    IF empty(df) \/ StatusColumnOf(df) = None \/ "Dataset ID" \notin df.cols THEN 0
    ELSE Cardinality({<<df.rows[i][StatusColumnOf(df)], df.rows[i]["Dataset ID"]>> :
                        i \in {j \in 1..len(df) :
                                 /\ ~isna(df.rows[j][StatusColumnOf(df)])
                                 /\ ~isna(df.rows[j]["Dataset ID"])
                                 /\ ClassifyStatusFlag(df.rows[j][StatusColumnOf(df)])
                                       = bucket}})

\* C12: for every pair of Partial OK and Not OK tables the tally is produced,
\* and each bucket holds, summed over the tables and over the distinct status
\* values classified into it, the number of distinct Dataset IDs with that
\* value; a value without "match" adds to neither bucket.
C12_StatusFlagTally ==
    pc = "ret" =>
        fn_out = Returned([b \in {"Matching", "Unmatching"} |->
                              TallyOf(fn_in.df_partial, b) + TallyOf(fn_in.df_not_ok, b)])

\* The same for the tables that carry a 'Dataset ID' column.
C12_TallyWithDatasetId ==
    (pc = "ret" /\ "Dataset ID" \in fn_in.df_partial.cols) => C12_StatusFlagTally

-----------------------------------------------------------------------------
(* The cross-tabulations *)

\* The table of a category.
TableOf(category) ==
    CASE category = Cat_OK -> heap["df_ok"]
      [] category = Cat_PartialOK -> heap["df_partial"]
      [] OTHER -> heap["df_not_ok"]

\* The distinct Dataset IDs among the rows of df whose cell under col reads v.
IdsWith(df, col, v) ==
    {df.rows[i]["Dataset ID"] : i \in {j \in 1..len(df) : str(df.rows[j][col]) = v}}

\* The triples as stated, for the categories given and the aliases of the
\* dimension field: data holds exactly one triple for each category table that
\* has rows and the field, and each distinct value of the field in it, with
\* the number of distinct Dataset IDs of the rows carrying that value.
CrossTabAsStated(data, categories, possible_cols) ==
    /\ \A i \in DOMAIN data :
          LET df == TableOf(data[i].Category)
              col == ResolveFor(possible_cols, df.cols)
          IN /\ data[i].Category \in categories
             /\ ~empty(df) /\ col # None
             /\ data[i].Count = Cardinality(IdsWith(df, col, data[i].Value))
             /\ data[i].Count >= 1
             /\ \A k \in DOMAIN data :
                   (data[k].Category = data[i].Category /\ data[k].Value = data[i].Value)
                      => k = i
    /\ \A category \in categories :
          LET df == TableOf(category)
              col == ResolveFor(possible_cols, df.cols)
          IN (~empty(df) /\ col # None) =>
                \A j \in 1..len(df) :
                   \E i \in DOMAIN data : /\ data[i].Category = category
                                          /\ data[i].Value = str(df.rows[j][col])

\* C13: whenever a cross-tabulation is produced (by ingest type, by max-date
\* status), it holds for each category table and each distinct value of the
\* field the number of distinct Dataset IDs of the rows with that value, nothing
\* for a table that is empty or lacks the field, and so no count below 1.
C13_CrossTabCounts ==
    /\ (out.step = "ingest" /\ "data" \in DOMAIN out) =>
          CrossTabAsStated(out.data, {Cat_OK, Cat_PartialOK, Cat_NotOK}, IngestTypeAliases)
    /\ (out.step = "maxdate" /\ "data" \in DOMAIN out) =>
          CrossTabAsStated(out.data, {Cat_PartialOK, Cat_NotOK}, MaxDateAliases)

-----------------------------------------------------------------------------
(* The lowest match datasets on their own *)

\* Lines 1012-1018: df_sorted, or None when the table has no data-match column.
lowest_match_datasets(df_summary) ==
    LET data_match_col == NextIn(<<"% data match", "data_match_pct">>, df_summary.cols)
    IN IF data_match_col = None THEN NoneDF
       ELSE LET df_sorted == dropna(coerce_columns(df_summary, {data_match_col}),
                                    {data_match_col})
            IN DataFrame(df_sorted.cols, nsmallest(df_sorted.rows, BottomN, data_match_col))

\* The cells of a data-match column: numbers, a text that is no number, a
\* missing cell.
MatchCells == <<Num(1), <<"T">>, Num(2), NaN>>

\* The summary table with the data-match header h and the given cells; the
\* Dataset ID of a row is its position.
SummaryOf(h, cells) ==
    DataFrame({"Dataset ID", h},
              [i \in DOMAIN cells |->
                  [c \in {"Dataset ID", h} |-> IF c = h THEN cells[i] ELSE Num(i)]])

\* Short columns of every make, and columns of BottomN + 1 cells that repeat
\* a pattern.
MatchColumns ==
    SeqsUpTo(Range(MatchCells), MaxRows)
    \cup {[i \in 1..(BottomN + 1) |-> MatchCells[((i * a + b) % 4) + 1]] :
             a \in 0..3, b \in 0..3}

InitBottomN ==
    /\ pc = "call"
    /\ fn_in \in [df_summary : {SummaryOf(h, cells) :
                                   h \in {"% data match", "data_match_pct", "% Data Match"},
                                   cells \in MatchColumns}]
    /\ fn_out = NoArg
    /\ Idle

LowestMatchDatasetsCall ==
    /\ pc = "call"
    /\ pc' = "ret"
    /\ fn_out' = lowest_match_datasets(fn_in.df_summary)
    /\ UNCHANGED caller

NextBottomN == LowestMatchDatasetsCall

SpecBottomN == InitBottomN /\ [][NextBottomN]_vars

\* The data-match column bottomN reads, None when the table has none.
BottomNColumn(df) ==
    IF "% data match" \in df.cols THEN "% data match"
    ELSE IF "data_match_pct" \in df.cols THEN "data_match_pct" ELSE None

\* The rows of df whose data-match cell is numeric (a number, or a text of digits).
NumericRows(df, col) == {i \in 1..len(df) : ~isna(to_numeric(df.rows[i][col]))}

\* C14: the lowest match datasets are at most 10 rows of the summary table, all
\* with a numeric data-match value, in non-decreasing order of it, rows of equal
\* value in their order in the table, and no row left out is smaller than one kept.
C14_BottomN ==
    (pc = "ret" /\ BottomNColumn(fn_in.df_summary) # None) =>
        LET df == fn_in.df_summary
            col == BottomNColumn(df)
            res == fn_out.rows
            pos(k) == res[k]["Dataset ID"][2]
            val(i) == to_numeric(df.rows[i][col])[2]
            kept == {pos(k) : k \in DOMAIN res}
        IN /\ Len(res) <= BottomN
           /\ Len(res) = IF Cardinality(NumericRows(df, col)) < BottomN
                         THEN Cardinality(NumericRows(df, col)) ELSE BottomN
           /\ kept \subseteq NumericRows(df, col)
           /\ Cardinality(kept) = Len(res)
           /\ \A k \in DOMAIN res :
                 /\ IsNum(res[k][col])
                 /\ res[k][col][2] = val(pos(k))
           /\ \A k \in DOMAIN res, l \in DOMAIN res :
                 k < l => \/ val(pos(k)) < val(pos(l))
                          \/ val(pos(k)) = val(pos(l)) /\ pos(k) < pos(l)
           /\ \A i \in NumericRows(df, col) \ kept, k \in DOMAIN res :
                 \/ val(pos(k)) < val(i)
                 \/ val(pos(k)) = val(i) /\ pos(k) < i

\* A table with more than 10 numeric rows of two values: the result is cut to
\* 10 rows and holds rows of equal value.
C14_Witness ==
    /\ pc = "ret"
    /\ BottomNColumn(fn_in.df_summary) # None
    /\ Cardinality(NumericRows(fn_in.df_summary, BottomNColumn(fn_in.df_summary))) > BottomN
    /\ Len(fn_out.rows) = BottomN
    /\ \E k \in DOMAIN fn_out.rows, l \in DOMAIN fn_out.rows :
          LET col == BottomNColumn(fn_in.df_summary)
          IN /\ k < l
             /\ fn_out.rows[k][col] = fn_out.rows[l][col]
             /\ fn_out.rows[1][col] # fn_out.rows[BottomN][col]

-----------------------------------------------------------------------------
(* The export *)

\* The sheets as stated: one for each entry whose table is there and has a
\* row, under the first 31 characters of its name.
SheetsAsStated(bundle) ==
    LET kept == SelectSeq(bundle, LAMBDA e : ~IsNone(e.df) /\ len(e.df) > 0)
    IN [i \in 1..Len(kept) |->
           [k \in 1..(IF Len(kept[i].sheet_name) < 31 THEN Len(kept[i].sheet_name) ELSE 31)
               |-> kept[i].sheet_name[k]]]

\* C15: the export completes for every bundle, with exactly one sheet for each
\* entry whose table is non-null and has a row, named by the first 31
\* characters of the entry's name, and no sheet for the other entries.
C15_OneSheetPerNonEmptyTable ==
    out.step = "export" =>
        /\ "sheets" \in DOMAIN out
        /\ out.sheets = SheetsAsStated(export_bundle(heap))

-----------------------------------------------------------------------------
(* The load *)

\* C16: when one upload cannot be parsed and the others can, the load reports
\* the failure and the run goes on to the metrics and views of the tables that
\* did parse: it does not stop at the load.
C16_ParsedTablesRemainUsable ==
    (/\ out.step = "load"
     /\ \E r \in Roles : /\ files[r].state = "bad"
                         /\ \A q \in Roles \ {r} : files[q].state = "csv")
        => /\ out.error
           /\ pc # "stopped"

-----------------------------------------------------------------------------
(* The count difference *)

\* A cell that parses as a number: a number, or a text of digits.
ParsesNumeric(x) ==
    /\ ~isna(x)
    /\ \/ IsNum(x)
       \/ x # <<>> /\ \A i \in 1..Len(x) : IsDigit(x[i])

NumericValueOf(x) == IF IsNum(x) THEN x[2] ELSE digits_value(x)

\* C17: the Not OK view has the column 'Count Diff' exactly when the table has
\* both 'old count' and 'new count'; the cell of a row is old count - new count
\* when both cells parse as numbers and missing (not zero) otherwise.
C17_CountDiff ==
    (out.step = "tab_notok" /\ "view" \in DOMAIN out) =>
        LET view == heap[out.view]
        IN /\ "Count Diff" \in view.cols
                <=> {"old count", "new count"} \subseteq heap["df_not_ok"].cols
           /\ "Count Diff" \in view.cols =>
                 \A i \in 1..len(view) :
                    LET row == view.rows[i]
                    IN IF ParsesNumeric(row["old count"]) /\ ParsesNumeric(row["new count"])
                       THEN row["Count Diff"] =
                               Num(NumericValueOf(row["old count"])
                                   - NumericValueOf(row["new count"]))
                       ELSE isna(row["Count Diff"])

\* The Not OK view with a row whose difference is a number and a row whose old
\* count is no number.
C17_Witness ==
    /\ out.step = "tab_notok" /\ "view" \in DOMAIN out
    /\ "Count Diff" \in heap[out.view].cols
    /\ \E i \in 1..len(heap[out.view]), j \in 1..len(heap[out.view]) :
          /\ heap[out.view].rows[i]["Count Diff"] = Num(2)
          /\ ~ParsesNumeric(heap[out.view].rows[j]["old count"])
          /\ isna(heap[out.view].rows[j]["Count Diff"])

-----------------------------------------------------------------------------
(* The sanity run date on its own *)

\* sanity_date of line 660.
sanity_date_of(df_ok, df_not_ok) ==
    or_else(get_sanity_run_date(df_ok), get_sanity_run_date(df_not_ok))

Date_1 == <<"d", "1">>
Date_2 == <<"d", "2">>

DateDom == [c \in Range(SanityRunDateAliases) \cup {"Dataset ID"} |->
               IF c = "Dataset ID" THEN {<<"a">>} ELSE {Date_1, Num(0), NaN}]

\* The OK tables: with one date column, with two, with none.
DateOkTables ==
    TablesOver({"sanity run date"}, DateDom, MaxRows)
    \cup TablesOver({"sanity run date", "sanity_run_date"}, DateDom, MaxRows)
    \cup TablesOver({"sanity_run_date", "Sanity run date"}, DateDom, MaxRows)
    \cup TablesOver({"Dataset ID"}, DateDom, MaxRows)

\* The Not OK tables: without a date column, with a date, with a missing date.
DateNotOkTables ==
    {DataFrame({"Dataset ID"}, <<[c \in {"Dataset ID"} |-> <<"a">>]>>),
     DataFrame({"Sanity run date"}, <<[c \in {"Sanity run date"} |-> Date_2]>>),
     DataFrame({"sanity run date"}, <<[c \in {"sanity run date"} |-> NaN]>>)}

InitDate ==
    /\ pc = "call"
    /\ fn_in \in [df_ok : DateOkTables, df_not_ok : DateNotOkTables]
    /\ fn_out = NoArg
    /\ Idle

GetSanityRunDateCall ==
    /\ pc = "call"
    /\ pc' = "ret_helper"
    /\ fn_out' = get_sanity_run_date(fn_in.df_ok)
    /\ UNCHANGED caller

SanityDateCall ==
    /\ pc = "call"
    /\ pc' = "ret_main"
    /\ fn_out' = sanity_date_of(fn_in.df_ok, fn_in.df_not_ok)
    /\ UNCHANGED caller

NextDate == GetSanityRunDateCall \/ SanityDateCall

SpecDate == InitDate /\ [][NextDate]_vars

\* The candidates present in df, in their declared order.
PresentCandidates(df) == SelectSeq(SanityRunDateAliases, LAMBDA c : c \in df.cols)

\* The first non-null cell of a column, NaN when it has none.
FirstNonNull(df, c) ==
    IF \E i \in 1..len(df) : ~isna(df.rows[i][c])
    THEN df.rows[CHOOSE i \in 1..len(df) :
                    /\ ~isna(df.rows[i][c])
                    /\ \A j \in 1..(i - 1) : isna(df.rows[j][c])][c]
    ELSE NaN

\* C18 as stated: the result is the first non-null cell of the first candidate
\* present in the table, and "N/A" when no candidate is present or that column
\* has no non-null cell.
C18_FirstPresentCandidate ==
    pc = "ret_helper" =>
        LET present == PresentCandidates(fn_in.df_ok)
        IN IF present = <<>> \/ isna(FirstNonNull(fn_in.df_ok, present[1]))
           THEN fn_out = Txt_N_A
           ELSE fn_out = FirstNonNull(fn_in.df_ok, present[1])

\* The candidates present in df that have a non-null cell, in declared order.
DatedCandidates(df) ==
    SelectSeq(PresentCandidates(df), LAMBDA c : ~isna(FirstNonNull(df, c)))

\* C18 amended: the result is the first non-null cell of the first candidate
\* that is present in the table and has a non-null cell, and "N/A" when no
\* candidate present has one.
C18_FirstDatedCandidate ==
    pc = "ret_helper" =>
        LET dated == DatedCandidates(fn_in.df_ok)
        IN IF dated = <<>> THEN fn_out = Txt_N_A
           ELSE fn_out = FirstNonNull(fn_in.df_ok, dated[1])

\* The first candidate present has only missing cells, and the date comes from
\* the second row of the next candidate.
C18_Witness ==
    /\ pc = "ret_helper"
    /\ fn_in.df_ok.cols = {"sanity run date", "sanity_run_date"}
    /\ len(fn_in.df_ok) = 2
    /\ \A i \in 1..2 : isna(fn_in.df_ok.rows[i]["sanity run date"])
    /\ isna(fn_in.df_ok.rows[1]["sanity_run_date"])
    /\ fn_out = Date_1

\* C19: the date shown is the first non-empty date of the OK table when it has
\* one, otherwise that of the Not OK table, and "N/A" only when neither has one.
C19_FallbackToNotOk ==
    pc = "ret_main" =>
        LET ok == DatedCandidates(fn_in.df_ok)
            not_ok == DatedCandidates(fn_in.df_not_ok)
        IN fn_out = IF ok # <<>> THEN FirstNonNull(fn_in.df_ok, ok[1])
                    ELSE IF not_ok # <<>> THEN FirstNonNull(fn_in.df_not_ok, not_ok[1])
                    ELSE Txt_N_A

-----------------------------------------------------------------------------
(* The upload gate *)

Required == {"df_ok", "df_partial", "df_not_ok"}

\* The steps that produce metrics, charts, filtered views and the export.
ProducingSteps ==
    {"metrics", "case", "ingest", "status", "maxdate", "export",
     "tab_ok", "tab_partial", "tab_notok", "tab_summary"}

\* C20: metrics, charts, views and exports are produced only when the OK,
\* Partial OK and Not OK uploads are all present and parsed; a missing Summary
\* upload does not stop the run, it only turns the Summary analysis into a
\* warning and leaves the Summary sheet out of the workbook.
C20_UploadGate ==
    /\ out.step \in ProducingSteps => \A r \in Required : files[r].state = "csv"
    /\ (files["df_summary"].state = "none" /\ \A r \in Required : files[r].state = "csv")
          => /\ pc # "stopped"
             /\ out.step = "tab_summary" => "warning" \in DOMAIN out /\ out.warning
             /\ (out.step = "export" /\ "sheets" \in DOMAIN out)
                   => Sheet_Summary \notin Range(out.sheets)

\* A run without a Summary upload that has gone through every tab and ended on
\* the warning of the Summary tab.
C20_Witness ==
    /\ pc = "done"
    /\ files["df_summary"].state = "none"
    /\ out.step = "tab_summary"
    /\ out.warning
    /\ bindings # {}
    /\ widgets = <<>>

====
